---- MODULE Spec2Model ----
(***************************************************************************)
(* PIX proxy API (api/index.py): create_payment, get_payment_status and    *)
(* mercadopago_webhook over a key-value status store and the Mercado Pago  *)
(* SDK.  A handler is split where it waits on the provider, so that two    *)
(* requests served by different workers against the same store interleave; *)
(* one create_payment and one webhook can be waiting at a time.            *)
(***************************************************************************)
EXTENDS Integers, Sequences, TLC

\* ------------------------------------------------------------------ bounds
\* The provider issues the payment ids 1..MaxId.
MaxId == 2

\* ------------------------------------------------------------ Python values
\* Python's None, and "the key is not in the mapping".
None == "<None>"
Absent == "<absent>"
\* A field of a response record that the response does not carry.
NA == "-"

\* The statuses the provider reports other than the "pending" create_payment
\* writes; "approved" stands for all of them (rejected, cancelled, ...).
ProviderStatuses == {"approved"}

\* A JSON value found under "id": absent, an integer, or a string of digits
\* (n = 0 is the empty string).
RawIds ==
    {[t |-> "absent", n |-> 0], [t |-> "str", n |-> 0]}
        \cup [t : {"int", "str"}, n : 1..MaxId]

\* str(x.get("id", "")): the default is "", an integer prints as its digits.
PyStr(raw) ==
    CASE raw.t = "absent" -> ""
      [] raw.t = "int" -> ToString(raw.n)
      [] raw.t = "str" -> IF raw.n = 0 THEN "" ELSE ToString(raw.n)

\* Python truthiness of a string or None: `not x` is ~Truthy(x).
Truthy(x) == x # None /\ x # ""

\* The payment ids that can be a key of the store.
Keys == {PyStr(r) : r \in RawIds} \ {""}

VARIABLES
    mercadopago,      \* the SDK was imported (FALSE: mercadopago is None)
    MP_ACCESS_TOKEN,  \* the access token is set in the environment
    kv,               \* the status store: key -> value, or Absent
    mpNext,           \* the id of the provider's next complete payment
    creating,         \* the create_payment request waiting on the provider
    hooking,          \* the webhook request waiting on the provider
    created,          \* payment ids returned by a successful create_payment
    last              \* the request last answered, and its response

vars == <<mercadopago, MP_ACCESS_TOKEN, kv, mpNext, creating, hooking, created, last>>

env == <<mercadopago, MP_ACCESS_TOKEN>>

\* ------------------------------------------------------------ status store
\* KVFallback.get / kv.get: None for a key that is not there.
KvGet(store, k) == IF store[k] = Absent THEN None ELSE store[k]

\* A set that writes nothing.
KvSetLost(store, k, v, ok) == store

\* KVFallback.set / kv.set: ok = FALSE is the call raising, the store as it was.
KvSet(store, k, v, ok) == IF ok THEN [store EXCEPT ![k] = v] ELSE store

\* ---------------------------------------------------------------- responses
\* No request of the kind is waiting on the provider.
Idle == [pc |-> "idle", payment_id |-> NA, value |-> NA, called |-> FALSE,
         pvalue |-> NA, btype |-> NA, bstatus |-> NA]

\* An answered request: the HTTP code and the fields of the JSON body, and of
\* the handling: whether the provider was called (called) and with what result
\* (pvalue), how kv.set ended (wrote), the notification's type and status
\* (btype, bstatus), and whether a create_payment for the same id was between
\* its provider call and its store write when the answer was given (concurrent).
Response(op, code, status, id, detail) ==
    [op |-> op, code |-> code, status |-> status, payment_id |-> id,
     detail |-> detail, qr |-> NA, new_status |-> NA, called |-> FALSE,
     pvalue |-> NA, wrote |-> NA, btype |-> NA, bstatus |-> NA,
     concurrent |-> FALSE]

\* GET /api/hello
hello_world ==
    /\ last' = Response("hello", 200, NA, NA, "message")
    /\ UNCHANGED <<env, kv, mpNext, creating, hooking, created>>

\* ----------------------------------------------------------- create_payment
\* What sdk.payment().create(...) can answer: it raises, or returns a response
\* whose id is absent or the next payment id and whose qr_code is
\* absent (None), empty or a payload.
ProviderCreateResults ==
    {[raised |-> TRUE, id |-> [t |-> "absent", n |-> 0], qr |-> None]}
        \cup [raised : {FALSE},
              id : {[t |-> "absent", n |-> 0]}
                       \cup (IF mpNext <= MaxId THEN {[t |-> "int", n |-> mpNext]} ELSE {}),
              qr : {None, "", "qr"}]

\* The checks without the one of the token.
CreatePreconditionNoTokenCheck(sdk, token) ==
    IF ~sdk THEN "sdk_unavailable" ELSE "ok"

\* The two precondition checks, in the order the handler makes them.
CreatePrecondition(sdk, token) ==
    IF ~sdk THEN "sdk_unavailable"
    ELSE IF ~token THEN "token_missing"
    ELSE "ok"

\* if not payment_id or not qr_code
Incomplete(payment_id, qr_code) == ~Truthy(payment_id) \/ ~Truthy(qr_code)

\* create_payment up to the provider's answer.
create_payment_call ==
    /\ creating.pc = "idle"
    /\ UNCHANGED <<env, kv, hooking, created>>
    /\ LET pre == CreatePrecondition(mercadopago, MP_ACCESS_TOKEN) IN
       IF pre # "ok"
       THEN /\ last' = Response("create", 500, NA, NA, pre)
            /\ UNCHANGED <<mpNext, creating>>
       ELSE \E r \in ProviderCreateResults :
              LET payment_id == PyStr(r.id)
                  failed(detail) ==
                      /\ last' = [Response("create", 500, NA, NA, detail)
                                     EXCEPT !.called = TRUE,
                                            !.pvalue = IF r.raised THEN "raised" ELSE r.id.t,
                                            !.qr = r.qr]
                      /\ creating' = creating
                  accepted == ~r.raised /\ ~Incomplete(payment_id, r.qr)
              IN /\ mpNext' = IF accepted THEN mpNext + 1 ELSE mpNext
                 /\ IF r.raised THEN failed("exception")
                    ELSE IF Incomplete(payment_id, r.qr) THEN failed("mp_result")
                    ELSE /\ creating' = [Idle EXCEPT !.pc = "store",
                                                     !.payment_id = payment_id,
                                                     !.value = r.qr,
                                                     !.called = TRUE,
                                                     !.pvalue = r.id.t]
                         /\ last' = last

\* The answer if a failed write were let through to the except clause.
CreateAnswerFailing(payment_id, qr_code, ok) ==
    IF ok
    THEN [Response("create", 200, "pending", payment_id, NA) EXCEPT !.qr = qr_code]
    ELSE Response("create", 500, NA, NA, "exception")

\* return {"payment_id": ..., "status": "pending", "qr_code_copy_paste": ...},
\* whether or not the write went through.
CreateAnswer(payment_id, qr_code, ok) ==
    [Response("create", 200, "pending", payment_id, NA) EXCEPT !.qr = qr_code]

\* create_payment from the store write on: kv.set, tried again once if it raises.
create_payment_store ==
    /\ creating.pc = "store"
    /\ \E ok1 \in BOOLEAN, ok2 \in BOOLEAN :
         LET ok == ok1 \/ ok2 IN
         /\ kv' = KvSet(kv, creating.payment_id, "pending", ok)
         /\ last' = [CreateAnswer(creating.payment_id, creating.value, ok)
                        EXCEPT !.called = TRUE,
                               !.pvalue = creating.pvalue,
                               !.wrote = IF ok THEN "ok" ELSE "failed"]
    /\ created' = created \cup {creating.payment_id}
    /\ creating' = Idle
    /\ UNCHANGED <<env, mpNext, hooking>>

\* ------------------------------------------------------- get_payment_status
\* The texts the handlers store.
Texts == ProviderStatuses \cup {"pending", "unknown"}

\* The bytes of a text, as some bindings of the store hand a value back.
Encode(text) == "b'" \o text \o "'"

\* status.decode("utf-8")
Decode(bytes) == CHOOSE text \in Texts : Encode(text) = bytes

\* Lines 105-111: decode bytes, 404 for None, the status otherwise.
StatusAnswer(payment_id, raw) ==
    LET status == IF raw.bytes THEN Decode(raw.v) ELSE raw.v IN
    IF status = None THEN Response("status", 404, NA, payment_id, "not_found")
    ELSE Response("status", 200, status, payment_id, NA)

\* What kv.get(payment_id) can return from `store`: the value, or its bytes
\* when it is a text.
KvGetResults(store, k) ==
    {[bytes |-> FALSE, v |-> KvGet(store, k)]}
        \cup {[bytes |-> TRUE, v |-> Encode(t)] : t \in {KvGet(store, k)} \cap Texts}

get_payment_status ==
    /\ \E payment_id \in Keys :
         \/ \E raw \in KvGetResults(kv, payment_id) :
              last' = StatusAnswer(payment_id, raw)
         \/ last' = Response("status", 500, NA, payment_id, "exception")
    /\ UNCHANGED <<env, kv, mpNext, creating, hooking, created>>

\* ------------------------------------------------------ mercadopago_webhook
\* A status the notification itself may carry; the handler never reads it.
BodyStatuses == {NA, "rejected"}

NoBody(shape) ==
    [shape |-> shape, type |-> NA, data |-> NA, id |-> [t |-> "absent", n |-> 0],
     status |-> NA]

\* Request bodies: not JSON, a JSON array, a JSON scalar, or a JSON object with
\* or without "type", "data" (an object or not) and "data.id".
Bodies ==
    {NoBody("unparseable"), NoBody("array"), NoBody("scalar")}
        \cup {[NoBody("object") EXCEPT !.type = t, !.data = d, !.status = st] :
                 t \in {"payment", "other", "absent"},
                 d \in {"absent", "nonobject", "object"}, st \in BodyStatuses}
        \cup {[NoBody("object") EXCEPT !.type = "payment", !.data = "object",
                                       !.id = i, !.status = st] :
                 i \in RawIds, st \in BodyStatuses}

\* The branches without the test of the type.
WebhookRouteAnyType(body) ==
    IF body.shape = "unparseable" THEN "invalid_json"
    ELSE IF body.shape # "object" THEN "error"
    ELSE IF body.data = "nonobject" THEN "error"
    ELSE IF ~Truthy(PyStr(body.id)) THEN "no_id"
    ELSE "payment"

\* Lines 120-129: which way the handler goes.  data.get on a body that is not
\* an object, or .get on a "data" that is not one, raises AttributeError, which
\* nothing catches.
WebhookRoute(body) ==
    IF body.shape = "unparseable" THEN "invalid_json"
    ELSE IF body.shape # "object" THEN "error"
    ELSE IF body.type # "payment" THEN "ignored"
    ELSE IF body.data = "nonobject" THEN "error"
    ELSE IF ~Truthy(PyStr(body.id)) THEN "no_id"
    ELSE "payment"

\* What sdk.payment().get(payment_id) can answer: it raises, or returns a
\* response with a status or with none.
ProviderGetResults == {"raised", None} \cup ProviderStatuses

\* if mercadopago is not None and MP_ACCESS_TOKEN
MayQuery(sdk, token) == sdk /\ token

\* The status if the notification's own were trusted.
FetchedStatusFromBody(queried, result, bstatus) ==
    IF ~queried \/ result = "raised" THEN "unknown"
    ELSE IF bstatus # NA THEN bstatus ELSE result

\* Lines 132-140: the provider's status, or "unknown".
FetchedStatus(queried, result, bstatus) ==
    IF ~queried \/ result = "raised" THEN "unknown" ELSE result

WebhookAnswer(body, code, status) ==
    [Response("webhook", code, status, NA, NA)
        EXCEPT !.btype = body.type, !.bstatus = body.status]

\* mercadopago_webhook up to the provider's answer.
webhook_receive ==
    /\ hooking.pc = "idle"
    /\ UNCHANGED <<env, kv, mpNext, creating, created>>
    /\ \E body \in Bodies :
         LET route == WebhookRoute(body) IN
         CASE route = "invalid_json" ->
                /\ last' = [WebhookAnswer(body, 200, "invalid_json") EXCEPT !.detail = "exception"]
                /\ hooking' = hooking
           [] route = "error" ->
                /\ last' = [WebhookAnswer(body, 500, NA) EXCEPT !.detail = "exception"]
                /\ hooking' = hooking
           [] route = "ignored" ->
                /\ last' = [WebhookAnswer(body, 200, "ignored") EXCEPT !.detail = "unsupported type"]
                /\ hooking' = hooking
           [] route = "no_id" ->
                /\ last' = WebhookAnswer(body, 200, "no_id")
                /\ hooking' = hooking
           [] route = "payment" ->
                /\ last' = last
                /\ LET queried == MayQuery(mercadopago, MP_ACCESS_TOKEN) IN
                   \E result \in IF queried THEN ProviderGetResults ELSE {NA} :
                     hooking' = [pc |-> "store",
                                 payment_id |-> PyStr(body.id),
                                 value |-> FetchedStatus(queried, result, body.status),
                                 called |-> queried,
                                 pvalue |-> result,
                                 btype |-> body.type,
                                 bstatus |-> body.status]

\* mercadopago_webhook from the store write on.
webhook_store ==
    /\ hooking.pc = "store"
    /\ \E ok \in BOOLEAN :
         /\ kv' = KvSet(kv, hooking.payment_id, hooking.value, ok)
         /\ last' = [Response("webhook", 200, "ok", hooking.payment_id, NA)
                        EXCEPT !.new_status = hooking.value,
                               !.called = hooking.called,
                               !.pvalue = hooking.pvalue,
                               !.wrote = IF ok THEN "ok" ELSE "failed",
                               !.btype = hooking.btype,
                               !.bstatus = hooking.bstatus,
                               !.concurrent = (creating.pc = "store"
                                    /\ creating.payment_id = hooking.payment_id)]
    /\ hooking' = Idle
    /\ UNCHANGED <<env, mpNext, creating, created>>

\* ------------------------------------------------------------ specification
Init ==
    /\ mercadopago \in BOOLEAN
    /\ MP_ACCESS_TOKEN \in BOOLEAN
    /\ kv = [k \in Keys |-> Absent]
    /\ mpNext = 1
    /\ creating = Idle
    /\ hooking = Idle
    /\ created = {}
    /\ last = Response("init", 0, NA, NA, NA)

Next ==
    \/ hello_world
    \/ create_payment_call
    \/ create_payment_store
    \/ get_payment_status
    \/ webhook_receive
    \/ webhook_store

Spec == Init /\ [][Next]_vars

\* ------------------------------------------------------------------ claims
\* The answers get_payment_status can give for `id` in `store` when kv.get
\* does not raise.
LookupAnswers(store, id) == {StatusAnswer(id, raw) : raw \in KvGetResults(store, id)}

\* A get_payment_status step for `id` whose kv.get did not raise.
LookupStep(id) ==
    /\ get_payment_status
    /\ last'.op = "status"
    /\ last'.payment_id = id
    /\ last'.code # 500

\* C1: when the provider answers create_payment with a non-empty id and a
\* non-empty qr_code and the store write goes through, the response is 200 with
\* a non-empty payment_id and qr_code_copy_paste and status "pending", the
\* request is never refused as incomplete, and a get_payment_status for that
\* payment_id that follows it (no other request answered in between, kv.get
\* not raising) answers "pending".
C1_CreateThenPending ==
    [][ /\ (last'.op = "create" /\ last'.detail = "mp_result")
            => (last'.pvalue = "absent" \/ ~Truthy(last'.qr))
        /\ (create_payment_store /\ last'.wrote = "ok")
            => /\ last'.code = 200
               /\ last'.status = "pending"
               /\ Truthy(last'.payment_id) /\ last'.payment_id = creating.payment_id
               /\ Truthy(last'.qr)
               /\ \A a \in LookupAnswers(kv', last'.payment_id) :
                     a.code = 200 /\ a.status = "pending"
        /\ (last.op = "create" /\ last.code = 200 /\ last.wrote = "ok"
                /\ LookupStep(last.payment_id))
            => (last'.code = 200 /\ last'.status = "pending")
      ]_vars

\* A status lookup answered "pending" for a payment create_payment returned.
C1_Witness ==
    /\ last.op = "status" /\ last.code = 200 /\ last.status = "pending"
    /\ last.payment_id \in created
    /\ kv[last.payment_id] = "pending"

\* C2: a create_payment call made while the access token is absent is answered
\* 500 with a detail that names a missing piece of configuration (the token,
\* or the SDK when that is missing too, which the handler checks first); the
\* provider is not called and the store is as it was.
C2_NoTokenNoCreate ==
    [][ (create_payment_call /\ ~MP_ACCESS_TOKEN)
            => /\ last'.op = "create" /\ last'.code = 500
               /\ last'.detail = IF mercadopago THEN "token_missing" ELSE "sdk_unavailable"
               /\ ~last'.called
               /\ mpNext' = mpNext
               /\ creating' = creating
               /\ kv' = kv
      ]_vars

\* create_payment refused for the missing token, with entries in the store.
C2_Witness ==
    /\ ~MP_ACCESS_TOKEN
    /\ last.op = "create" /\ last.code = 500 /\ last.detail = "token_missing"
    /\ \E k \in Keys : kv[k] # Absent

\* C3: a get_payment_status (whose kv.get does not raise) for a payment id that
\* no successful create_payment returned is answered 404.
C3_NeverCreatedNotFound ==
    (last.op = "status" /\ last.code # 500 /\ last.payment_id \notin created)
        => last.code = 404

C5_WebhookAlways200 ==
    last.op = "webhook"
        => (last.code = 200 /\ last.status \in {"invalid_json", "ok", "no_id", "ignored"})

\* C6: a webhook whose body is an object with a type other than "payment" is
\* answered 200 "ignored" without a provider call or a store write, it never
\* gets as far as the provider query, and the store changes only in
\* create_payment's and a "payment" webhook's write.
C6_OtherTypeIgnored ==
    [][ /\ (last'.op = "webhook" /\ last'.btype \in {"other", "absent"})
            => /\ last'.code = 200 /\ last'.status = "ignored"
               /\ ~last'.called /\ last'.wrote = NA
        /\ (hooking'.pc = "store") => (hooking'.btype = "payment")
        /\ (kv' # kv)
            => (create_payment_store \/ (webhook_store /\ hooking.btype = "payment"))
      ]_vars

\* A notification of another type was ignored while the store held entries.
C6_Witness ==
    /\ last.op = "webhook" /\ last.btype = "other" /\ last.status = "ignored"
    /\ \E k \in Keys : kv[k] \notin {Absent, None}

\* C7: with the access token absent, a webhook of type "payment" with a
\* non-empty data.id does not answer "ok" and does not write the store.
C7_NoTokenWebhookFails ==
    (~MP_ACCESS_TOKEN /\ last.op = "webhook" /\ last.btype = "payment"
        /\ Truthy(last.payment_id))
        => (last.status # "ok" /\ last.wrote # "ok")

\* C8: when kv.set raises (in create_payment, both times), create_payment
\* still answers 200 {payment_id, "pending", qr_code_copy_paste}, the webhook
\* still answers 200 {"ok", payment_id, new_status}, and the store is as it was.
C8_StoreFailureAbsorbed ==
    [][ /\ (create_payment_store /\ last'.wrote = "failed")
            => /\ last'.op = "create" /\ last'.code = 200
               /\ last'.status = "pending"
               /\ last'.payment_id = creating.payment_id
               /\ last'.qr = creating.value
               /\ kv' = kv
        /\ (webhook_store /\ last'.wrote = "failed")
            => /\ last'.op = "webhook" /\ last'.code = 200
               /\ last'.status = "ok"
               /\ last'.payment_id = hooking.payment_id
               /\ last'.new_status = hooking.value
               /\ kv' = kv
      ]_vars

\* Both lost writes: a payment create_payment returned is not in the store,
\* and the webhook answered "ok" with "approved" while the store still holds
\* the "pending" from before.
C8_Witness ==
    /\ \E k \in created : kv[k] = Absent
    /\ last.op = "webhook" /\ last.status = "ok" /\ last.wrote = "failed"
    /\ last.new_status = "approved"
    /\ kv[last.payment_id] = "pending"

\* C9: once get_payment_status can answer a status for a payment id, no step
\* brings it back to 404.
C9_StatusNeverLost ==
    [][ \A k \in Keys :
          (\E a \in LookupAnswers(kv, k) : a.code = 200)
              => (\A a \in LookupAnswers(kv', k) : a.code # 404)
      ]_vars

\* C10: when a webhook for a payment id wrote the status it fetched from the
\* provider while create_payment for that id was between its provider call and
\* its store write, the stored status once create_payment has completed is
\* still the one the webhook fetched.
C10_PendingNeverOverwrites ==
    [][ (create_payment_store
            /\ last.op = "webhook" /\ last.status = "ok" /\ last.wrote = "ok"
            /\ last.concurrent /\ last.payment_id = creating.payment_id
            /\ last.called /\ last.pvalue \in ProviderStatuses)
            => kv'[creating.payment_id] = last.pvalue
      ]_vars

====
